---------------------------- MODULE Spec2Model ----------------------------
(***************************************************************************)
(* Model of src/app.py: the CSV row comparison tool.                       *)
(*                                                                         *)
(*   combine_dataframes   (lines 4-18)   read each uploaded file, keep one *)
(*                                       column when a filter is given,    *)
(*                                       concatenate with a fresh index.   *)
(*   compare_csv_columns  (lines 20-37)  rows of df2 whose col2 value is   *)
(*                                       not among the values of df1[col1].*)
(*   the page script      (lines 61-131) the two uploaders, the two select *)
(*                                       boxes, the button, the results.   *)
(*                                                                         *)
(* A DataFrame is a record [kind, columns, index, rows]: columns is the    *)
(* ordered list of column labels, index the list of row labels, rows the   *)
(* list of rows, each a function from the column labels to cell values.    *)
(* A missing cell is NaN.  A parsed CSV file is [columns, rows]: its       *)
(* header and its data lines.                                              *)
(***************************************************************************)
EXTENDS Integers, Sequences, FiniteSets, TLC

VARIABLES
    \* the page (lines 61-131): widget state and what the last run displayed
    files1, files2, ref_col, target_col, page,
    \* one call of combine_dataframes: its arguments and what it returned
    uploaded_files, column_name, combined,
    \* one call of compare_csv_columns, and a second call on its own result
    reference, target, reference_column, target_column, result, rerun_df

uiVars      == <<files1, files2, ref_col, target_col, page>>
combineVars == <<uploaded_files, column_name, combined>>
diffVars    == <<reference, target, reference_column, target_column, result, rerun_df>>
vars        == <<uiVars, combineVars, diffVars>>

---------------------------------------------------------------------------
(* Bounds of the model.                                                    *)

MaxRefRows    == 1   \* rows of an enumerated reference table
MaxTargetRows == 2   \* rows of an enumerated target table
MaxFileRows   == 1   \* data lines of an enumerated CSV file
MaxFiles      == 2   \* files in one enumerated combine_dataframes call
MaxUploads    == 2   \* files the user uploads to one group

---------------------------------------------------------------------------
(* Python values.                                                          *)

NaN      == "NaN"                      \* pandas' missing value
None     == [kind |-> "None"]          \* Python's None
KeyError == [kind |-> "KeyError"]      \* raised by a label lookup that fails
Pending  == [kind |-> "pending"]       \* the call has not been made yet
Str(s)   == [kind |-> "str", s |-> s]  \* a Python string argument

\* Python truthiness of an optional string: None and "" are falsy (line 14).
Truthy(x) == x.kind = "str" /\ x.s # ""

Range(s) == {s[i] : i \in DOMAIN s}

SeqsUpTo(S, n) == UNION {[1..k -> S] : k \in 0..n}

RangeIndex(n) == [i \in 1..n |-> i - 1]

IsFrame(x) == x.kind = "DataFrame"

\* len(df)
len(df) == Len(df.rows)

---------------------------------------------------------------------------
(* pandas operations used by the program.                                  *)

\* pd.read_csv(file): the header gives the columns, the rows get 0..n-1.
read_csv(file) ==
    [kind |-> "DataFrame", columns |-> file.columns,
     index |-> RangeIndex(Len(file.rows)), rows |-> file.rows]

\* df.reindex(columns=[column_name]): an absent column comes back filled with
\* NaN instead of failing.
SelectColumns_reindex(df, name) ==
    [kind |-> "DataFrame", columns |-> <<name>>, index |-> df.index,
     rows |-> [i \in DOMAIN df.rows |->
                 [c \in {name} |-> IF c \in DOMAIN df.rows[i] THEN df.rows[i][c] ELSE NaN]]]

\* df[[column_name]]: the one-column frame, or KeyError when absent.
SelectColumns(df, name) ==
    IF name \notin Range(df.columns) THEN KeyError
    ELSE [kind |-> "DataFrame", columns |-> <<name>>, index |-> df.index,
          rows |-> [i \in DOMAIN df.rows |-> [c \in {name} |-> df.rows[i][c]]]]

\* The labels of several column lists in order of first appearance
\* (pd.concat's outer join of the columns, sort=False).
RECURSIVE UnionColumns(_)
UnionColumns(dfs) ==
    IF dfs = <<>> THEN <<>>
    ELSE LET before == UnionColumns(SubSeq(dfs, 1, Len(dfs) - 1))
             last   == dfs[Len(dfs)].columns
         IN before \o SelectSeq(last, LAMBDA c : c \notin Range(before))

\* A row widened to the given columns, NaN where the row has no such column.
Reindex(row, columns) ==
    [c \in Range(columns) |-> IF c \in DOMAIN row THEN row[c] ELSE NaN]

RECURSIVE ConcatRows(_, _)
ConcatRows(dfs, columns) ==
    IF dfs = <<>> THEN <<>>
    ELSE LET df == dfs[Len(dfs)]
         IN ConcatRows(SubSeq(dfs, 1, Len(dfs) - 1), columns)
            \o [i \in DOMAIN df.rows |-> Reindex(df.rows[i], columns)]

RECURSIVE ConcatIndex(_)
ConcatIndex(dfs) ==
    IF dfs = <<>> THEN <<>>
    ELSE ConcatIndex(SubSeq(dfs, 1, Len(dfs) - 1)) \o dfs[Len(dfs)].index

\* The index of the concatenation with ignore_index left out: every file's
\* own labels.
IgnoreIndex_omitted(dfs) == ConcatIndex(dfs)

\* The index of the concatenation under ignore_index=True.
IgnoreIndex(dfs) == RangeIndex(Len(ConcatIndex(dfs)))

\* pd.concat(dfs, ignore_index=True)
concat(dfs) ==
    LET columns == UnionColumns(dfs)
    IN [kind |-> "DataFrame", columns |-> columns,
        index |-> IgnoreIndex(dfs), rows |-> ConcatRows(dfs, columns)]

\* set(series.unique()): the distinct values of a column, NaN included.
unique(df, name) == {df.rows[i][name] : i \in DOMAIN df.rows}

\* isin with the negation of line 37 lost.
isin_negated(value, values) == value \notin values

\* isin under SQL's rule that a missing value equals nothing.
isin_nan_unequal(value, values) == value # NaN /\ value \in values

\* value.isin(values): membership by equality; NaN matches NaN.
isin(value, values) == value \in values

\* A mask built by position and applied by label: the rows whose label is
\* the (0-based) number of a kept position.
Take_by_label(df, kept) ==
    LET at == SelectSeq([i \in DOMAIN df.rows |-> i],
                        LAMBDA i : \E k \in DOMAIN kept : df.index[i] = kept[k] - 1)
    IN [kind |-> "DataFrame", columns |-> df.columns,
        index |-> [k \in DOMAIN at |-> df.index[at[k]]],
        rows |-> [k \in DOMAIN at |-> df.rows[at[k]]]]

\* df2[mask]: the rows at the kept positions, labels and contents as they were.
Take(df, kept) ==
    [kind |-> "DataFrame", columns |-> df.columns,
     index |-> [k \in DOMAIN kept |-> df.index[kept[k]]],
     rows |-> [k \in DOMAIN kept |-> df.rows[kept[k]]]]

\* The filter followed by drop_duplicates on the compared column.
FilterNotIn_dedup(df2, col2_name, reference_values) ==
    Take(df2, SelectSeq([i \in DOMAIN df2.rows |-> i],
                        LAMBDA i : /\ ~isin(df2.rows[i][col2_name], reference_values)
                                   /\ \A j \in 1..(i - 1) :
                                         df2.rows[j][col2_name] # df2.rows[i][col2_name]))

\* The filter with an early "nothing to compare against" exit.
FilterNotIn_empty_exit(df2, col2_name, reference_values) ==
    Take(df2, SelectSeq([i \in DOMAIN df2.rows |-> i],
                        LAMBDA i : /\ reference_values # {}
                                   /\ ~isin(df2.rows[i][col2_name], reference_values)))

\* df2[~df2[col2_name].isin(reference_values)]
FilterNotIn(df2, col2_name, reference_values) ==
    Take(df2, SelectSeq([i \in DOMAIN df2.rows |-> i],
                        LAMBDA i : ~isin(df2.rows[i][col2_name], reference_values)))

---------------------------------------------------------------------------
(* The two functions of the program.                                       *)

combine_dataframes(files, name) ==
    IF files = <<>> THEN None
    ELSE LET dfs == [i \in DOMAIN files |->
                        IF Truthy(name) THEN SelectColumns(read_csv(files[i]), name.s)
                        ELSE read_csv(files[i])]
         IN IF \E i \in DOMAIN dfs : dfs[i] = KeyError THEN KeyError
            ELSE concat(dfs)

compare_csv_columns(df1, df2, col1_name, col2_name) ==
    IF col1_name \notin Range(df1.columns) THEN KeyError
    ELSE LET reference_values == unique(df1, col1_name)
         IN IF col2_name \notin Range(df2.columns) THEN KeyError
            ELSE FilterNotIn(df2, col2_name, reference_values)

---------------------------------------------------------------------------
(* The page script (lines 61-131).  Streamlit runs it from the top on every *)
(* interaction; a run reads the widgets and produces what is displayed.     *)

\* The guard of line 74 written with "or".
Ready_either(uploaded1, uploaded2) == uploaded1 # <<>> \/ uploaded2 # <<>>

\* if files1 and files2 (line 74): a non-empty list is truthy.
Ready(uploaded1, uploaded2) == uploaded1 # <<>> /\ uploaded2 # <<>>

\* st.selectbox(label, options, key=...): the value kept under the key while it
\* is still an option, the first option otherwise.
selectbox(kept, options) ==
    IF kept.kind = "str" /\ kept.s \in Range(options) THEN kept ELSE Str(options[1])

\* result_df.to_csv(index=False): the header, then one line per row with the
\* cells in column order and a missing cell written as the empty string.
to_csv(df) ==
    [header |-> df.columns,
     lines  |-> [i \in DOMAIN df.rows |->
                   [k \in DOMAIN df.columns |->
                      IF df.rows[i][df.columns[k]] = NaN THEN ""
                      ELSE df.rows[i][df.columns[k]]]]]

\* The share of missing rows instead of the share of rows found.
OverlapPercentage_missing(total, missing) ==
    [kind |-> "rate", num |-> missing * 100, den |-> total]

\* ((len(df2) - len(result_df)) / len(df2)) * 100 (line 127), as a fraction.
OverlapPercentage(total, missing) ==
    [kind |-> "rate", num |-> (total - missing) * 100, den |-> total]

\* f"{x:.1f}" (line 128): x in tenths, rounded to the nearest tenth, a tie to
\* the even one.  The float quotient of two row counts is within 1e-13 of the
\* fraction, which moves no digit of the tenth away from a tie.
FormatOneDecimal(x) ==
    LET n     == x.num * 10
        floor == n \div x.den
        rest  == n % x.den
    IN IF 2 * rest > x.den \/ (2 * rest = x.den /\ floor % 2 = 1)
       THEN floor + 1 ELSE floor

\* What a run displays when nothing below line 74 is reached or shown.
Blank ==
    [info |-> FALSE, df1 |-> None, df2 |-> None, group_a |-> None, group_b |-> None,
     col_reference |-> None, col_target |-> None, button |-> FALSE,
     result_df |-> None, notice |-> "none", download |-> None,
     metrics |-> None, match_rate |-> None]

\* Lines 89-128: the button was pressed in this run.
Results(shown, df1, df2) ==
    LET result_df == compare_csv_columns(df1, df2, shown.col_reference.s, shown.col_target.s)
        total     == len(df2)
        missing   == len(result_df)
    IN [shown EXCEPT
          !.button     = TRUE,
          !.result_df  = result_df,
          !.notice     = IF missing = 0 THEN "all_found" ELSE "warning",
          !.download   = IF missing = 0 THEN None ELSE to_csv(result_df),
          !.metrics    = [kind |-> "metrics", group_a |-> len(df1),
                          group_b |-> total, missing |-> missing],
          !.match_rate = IF total > 0
                         THEN [kind |-> "text",
                               tenths |-> FormatOneDecimal(OverlapPercentage(total, missing))]
                         ELSE None]

\* Lines 74-131: one run of the script.
RunScript(uploaded1, uploaded2, kept_ref, kept_target, button) ==
    IF Ready(uploaded1, uploaded2)
    THEN LET df1 == combine_dataframes(uploaded1, None)
             df2 == combine_dataframes(uploaded2, None)
         IN IF df1 # None /\ df2 # None
            THEN LET shown ==
                       [Blank EXCEPT
                          !.df1 = df1, !.df2 = df2,
                          !.group_a = [kind |-> "success", files |-> Len(uploaded1),
                                       rows |-> len(df1)],
                          !.group_b = [kind |-> "success", files |-> Len(uploaded2),
                                       rows |-> len(df2)],
                          !.col_reference = selectbox(kept_ref, df1.columns),
                          !.col_target = selectbox(kept_target, df2.columns)]
                 IN IF button THEN Results(shown, df1, df2) ELSE shown
            ELSE [Blank EXCEPT !.df1 = df1, !.df2 = df2]
    ELSE [Blank EXCEPT !.info = TRUE]

---------------------------------------------------------------------------
(* Inputs.                                                                 *)

Cells       == {"John", "Sarah", NaN}
FileCells   == {"John", NaN}
Headers     == {<<"name">>, <<"email">>, <<"name", "email">>}
ColumnNames == {"name", "email"}

\* Every parsed CSV file with one of the headers, cells among the given ones
\* and at most n data lines.
Files(cells, n) ==
    UNION {{[columns |-> h, rows |-> r] : r \in SeqsUpTo([Range(h) -> cells], n)}
           : h \in Headers}

\* The files of the worked examples.
NamesFile(names) ==
    [columns |-> <<"name">>, rows |-> [i \in DOMAIN names |-> [c \in {"name"} |-> names[i]]]]

ContactedFile == NamesFile(<<"John", "Mary", "Bob">>)
LeadsFile     == NamesFile(<<"John", "Mary", "Sarah", "Mike">>)
TwiceFile     == NamesFile(<<"John", "John", "Sarah">>)
JohnFile      == NamesFile(<<"John">>)

\* A file whose header lists the two columns the other way round.
SwappedFile ==
    [columns |-> <<"email", "name">>, rows |-> <<[email |-> "Sarah", name |-> NaN]>>]

\* What a caller may pass as column_name.
Filters == {None, Str(""), Str("name"), Str("email")}

---------------------------------------------------------------------------
(* One call of compare_csv_columns on tables as the program builds them    *)
(* (read or combined: labelled 0..n-1), then a second call whose target is *)
(* the first call's result.                                                *)

uiIdle      == /\ files1 = <<>> /\ files2 = <<>>
               /\ ref_col = None /\ target_col = None /\ page = Pending
combineIdle == uploaded_files = <<>> /\ column_name = None /\ combined = Pending
diffIdle    == /\ reference = Pending /\ target = Pending
               /\ reference_column = "" /\ target_column = ""
               /\ result = Pending /\ rerun_df = Pending

DiffInputs ==
    {<<read_csv(r), read_csv(t)>> : r \in Files(Cells, MaxRefRows),
                                   t \in Files(Cells, MaxTargetRows)}
    \cup {<<read_csv(ContactedFile), read_csv(LeadsFile)>>,
          <<read_csv(JohnFile), read_csv(TwiceFile)>>}

InitDiff ==
    /\ uiIdle /\ combineIdle
    /\ \E io \in DiffInputs : reference = io[1] /\ target = io[2]
    /\ reference_column \in ColumnNames
    /\ target_column \in ColumnNames
    /\ result = Pending
    /\ rerun_df = Pending

Compare ==
    /\ result = Pending
    /\ result' = compare_csv_columns(reference, target, reference_column, target_column)
    /\ UNCHANGED <<reference, target, reference_column, target_column, rerun_df>>
    /\ UNCHANGED <<uiVars, combineVars>>

CompareAgain ==
    /\ IsFrame(result)
    /\ rerun_df = Pending
    /\ rerun_df' = compare_csv_columns(reference, result, reference_column, target_column)
    /\ UNCHANGED <<reference, target, reference_column, target_column, result>>
    /\ UNCHANGED <<uiVars, combineVars>>

NextDiff == Compare \/ CompareAgain

SpecDiff == InitDiff /\ [][NextDiff]_vars

\* The values of the reference column and, per target position, the cell
\* compared and whether the row's label is among the result's labels.
RefValues     == {reference.rows[i][reference_column] : i \in DOMAIN reference.rows}
TargetCell(i) == target.rows[i][target_column]
InResult(i)   == \E k \in DOMAIN result.index : result.index[k] = target.index[i]
Compared      == IsFrame(result)

\* C1: the result partitions a non-empty target: every result row is a target
\* row whose compared value is not a reference value, and every target row
\* that is not in the result has a compared value that is a reference value.
C1_Partition ==
    (Compared /\ len(target) > 0) =>
        /\ \A k \in DOMAIN result.rows :
              /\ result.rows[k][target_column] \notin RefValues
              /\ \E i \in DOMAIN target.rows :
                    /\ target.index[i] = result.index[k]
                    /\ target.rows[i] = result.rows[k]
        /\ \A i \in DOMAIN target.rows :
              /\ ~InResult(i) => TargetCell(i) \in RefValues
              /\ InResult(i) => TargetCell(i) \notin RefValues

\* Some row of the target was kept and some row was left out.
C1_Witness ==
    /\ Compared
    /\ \E i, j \in DOMAIN target.rows : InResult(i) /\ ~InResult(j)

\* How many rows of a table hold value v in column c.
Occurrences(df, c, v) == Cardinality({i \in DOMAIN df.rows : df.rows[i][c] = v})

\* C2: the result is a sub-sequence of the target: same columns, the kept
\* rows unchanged and in the target's order, and every value that is not a
\* reference value is kept as many times as it occurs, every other one never;
\* reference [John] and target [John, John, Sarah] give [Sarah].
C2_StableFilter ==
    Compared =>
        /\ result.columns = target.columns
        /\ \A k \in DOMAIN result.rows :
              /\ result.index[k] + 1 \in DOMAIN target.rows
              /\ result.rows[k] = target.rows[result.index[k] + 1]
        /\ \A k \in 1..(len(result) - 1) : result.index[k] < result.index[k + 1]
        /\ \A i \in DOMAIN target.rows :
              Occurrences(result, target_column, TargetCell(i)) =
                  IF TargetCell(i) \in RefValues THEN 0
                  ELSE Occurrences(target, target_column, TargetCell(i))
        /\ (/\ reference = read_csv(JohnFile) /\ target = read_csv(TwiceFile)
            /\ reference_column = "name" /\ target_column = "name")
              => result.rows = <<[name |-> "Sarah"]>>

\* The duplicates example ran: reference [John], target [John, John, Sarah],
\* and the one row kept is the third.
C2_Witness ==
    /\ Compared
    /\ reference = read_csv(JohnFile) /\ target = read_csv(TwiceFile)
    /\ reference_column = "name" /\ target_column = "name"
    /\ result.index = <<2>>

\* C3: a reference without rows gives the target back, row for row; a target
\* without rows gives a result without rows.
C3_Boundary ==
    Compared =>
        /\ len(reference) = 0 =>
              /\ result.rows = target.rows
              /\ result.index = target.index
              /\ result.columns = target.columns
        /\ len(target) = 0 => len(result) = 0

\* An empty reference compared with a target of two rows, one of them missing
\* its value.
C3_Witness ==
    /\ Compared
    /\ len(reference) = 0
    /\ len(target) = 2
    /\ \E i \in DOMAIN target.rows : TargetCell(i) = NaN

\* C4: comparing the result against the same reference again changes nothing.
C4_Idempotent ==
    rerun_df # Pending => rerun_df = result

\* The second comparison ran on a result that had lost a row and kept one.
C4_Witness ==
    /\ rerun_df # Pending
    /\ len(result) > 0
    /\ len(result) < len(target)

\* C9: a target row whose value is missing is left out exactly when some
\* reference value is missing, and a target row whose value is present is
\* left out only when that very value is a reference value.
C9_NullIsOrdinary ==
    Compared =>
        \A i \in DOMAIN target.rows :
            /\ TargetCell(i) = NaN =>
                  (~InResult(i) <=>
                      \E r \in DOMAIN reference.rows :
                          reference.rows[r][reference_column] = NaN)
            /\ TargetCell(i) # NaN =>
                  (~InResult(i) =>
                      \E r \in DOMAIN reference.rows :
                          reference.rows[r][reference_column] = TargetCell(i))

\* The reference holds a missing value; the target row with a missing value
\* was left out and a target row with a value was kept.
C9_Witness ==
    /\ Compared
    /\ NaN \in RefValues
    /\ \E i, j \in DOMAIN target.rows :
          /\ TargetCell(i) = NaN /\ ~InResult(i)
          /\ TargetCell(j) # NaN /\ InResult(j)

---------------------------------------------------------------------------
(* One call of combine_dataframes on a list of parsed files.               *)

CombinePool == Files(FileCells, MaxFileRows) \cup {SwappedFile}

InitCombine ==
    /\ uiIdle /\ diffIdle
    /\ uploaded_files \in SeqsUpTo(CombinePool, MaxFiles)
    /\ column_name \in Filters
    /\ combined = Pending

Combine ==
    /\ combined = Pending
    /\ combined' = combine_dataframes(uploaded_files, column_name)
    /\ UNCHANGED <<uploaded_files, column_name>>
    /\ UNCHANGED <<uiVars, diffVars>>

NextCombine == Combine

SpecCombine == InitCombine /\ [][NextCombine]_vars

Combined       == combined # Pending
ColumnSet(f)   == Range(f.columns)
SameColumnSets == \A i, j \in DOMAIN uploaded_files :
                      ColumnSet(uploaded_files[i]) = ColumnSet(uploaded_files[j])

\* The number of data lines in the files before file j.
RECURSIVE RowsBefore(_)
RowsBefore(j) ==
    IF j <= 1 THEN 0 ELSE RowsBefore(j - 1) + Len(uploaded_files[j - 1].rows)

\* The columns a row keeps: the filter column when a filter is given.
KeptColumns(f) == IF Truthy(column_name) THEN {column_name.s} ELSE ColumnSet(f)

C6_SchemaMismatch ==
    (/\ Combined
     /\ ~Truthy(column_name)
     /\ ~SameColumnSets)
        => ~IsFrame(combined)

\* C7: with a filter (a column_name that line 14 takes as given: not None, not
\* empty) that is not a column of some file, wherever the file is in the list,
\* the call fails with the lookup's error and no table comes back.
C7_FilterAbsent ==
    (/\ Combined
     /\ Truthy(column_name)
     /\ \E j \in DOMAIN uploaded_files : column_name.s \notin ColumnSet(uploaded_files[j]))
        => combined = KeyError

\* The filter names a column of the first file, which has a row, and not of
\* the second; the call failed.
C7_Witness ==
    /\ Combined
    /\ Truthy(column_name)
    /\ Len(uploaded_files) = 2
    /\ column_name.s \in ColumnSet(uploaded_files[1])
    /\ Len(uploaded_files[1].rows) > 0
    /\ column_name.s \notin ColumnSet(uploaded_files[2])
    /\ combined = KeyError

---------------------------------------------------------------------------
(* The page: the user uploads and removes files, picks columns and presses *)
(* the button; every interaction runs the script again.                    *)

HeaderOnlyFile == NamesFile(<<>>)

UploadPool == {ContactedFile, LeadsFile, HeaderOnlyFile, SwappedFile}

RemoveAt(s, i) == SubSeq(s, 1, i - 1) \o SubSeq(s, i + 1, Len(s))

\* One run: what is displayed, and the widget values it leaves behind (a
\* select box that was not drawn keeps no value).
Rerun(uploaded1, uploaded2, kept_ref, kept_target, button) ==
    LET shown == RunScript(uploaded1, uploaded2, kept_ref, kept_target, button)
    IN /\ page' = shown
       /\ files1' = uploaded1
       /\ files2' = uploaded2
       /\ ref_col' = shown.col_reference
       /\ target_col' = shown.col_target
       /\ UNCHANGED <<combineVars, diffVars>>

InitUI ==
    /\ combineIdle /\ diffIdle
    /\ files1 = <<>>
    /\ files2 = <<>>
    /\ page = RunScript(<<>>, <<>>, None, None, FALSE)
    /\ ref_col = page.col_reference
    /\ target_col = page.col_target

UploadA ==
    /\ Len(files1) < MaxUploads
    /\ \E f \in UploadPool : Rerun(Append(files1, f), files2, ref_col, target_col, FALSE)

UploadB ==
    /\ Len(files2) < MaxUploads
    /\ \E f \in UploadPool : Rerun(files1, Append(files2, f), ref_col, target_col, FALSE)

RemoveA == \E i \in DOMAIN files1 :
               Rerun(RemoveAt(files1, i), files2, ref_col, target_col, FALSE)

RemoveB == \E i \in DOMAIN files2 :
               Rerun(files1, RemoveAt(files2, i), ref_col, target_col, FALSE)

SelectReference ==
    /\ page.col_reference # None
    /\ \E c \in Range(page.df1.columns) : Rerun(files1, files2, Str(c), target_col, FALSE)

SelectTarget ==
    /\ page.col_target # None
    /\ \E c \in Range(page.df2.columns) : Rerun(files1, files2, ref_col, Str(c), FALSE)

FindRows ==
    /\ page.col_reference # None
    /\ Rerun(files1, files2, ref_col, target_col, TRUE)

NextUI == \/ UploadA \/ UploadB \/ RemoveA \/ RemoveB
          \/ SelectReference \/ SelectTarget \/ FindRows

SpecUI == InitUI /\ [][NextUI]_vars

\* The rows the uploaded files of a group hold together.
RECURSIVE TotalRows(_)
TotalRows(files) ==
    IF files = <<>> THEN 0
    ELSE TotalRows(SubSeq(files, 1, Len(files) - 1)) + Len(files[Len(files)].rows)

\* C8: after a comparison the three counts are the rows of the reference, of
\* the target and of the result; with a non-empty target the rate shown is
\* (target - result) / target * 100 to one decimal, between 0 and 100; with an
\* empty target no rate is shown; the worked example gives 2 and 50.0.
C8_Summary ==
    page.button =>
        /\ page.metrics.group_a = TotalRows(files1)
        /\ page.metrics.group_b = TotalRows(files2)
        /\ page.metrics.missing = len(page.result_df)
        /\ page.metrics.missing <= page.metrics.group_b
        /\ TotalRows(files2) = 0 => page.match_rate = None
        /\ TotalRows(files2) > 0 =>
              /\ page.match_rate # None
              /\ 2 * (page.match_rate.tenths * TotalRows(files2)
                        - 1000 * (TotalRows(files2) - len(page.result_df)))
                    \in (0 - TotalRows(files2))..TotalRows(files2)
              /\ page.match_rate.tenths \in 0..1000
        /\ (/\ files1 = <<ContactedFile>> /\ files2 = <<LeadsFile>>)
              => /\ page.metrics.missing = 2
                 /\ page.match_rate.tenths = 500
                 /\ page.result_df.rows = <<[name |-> "Sarah"], [name |-> "Mike"]>>

\* The comparison ran on a target of which two rows in three were found: the
\* rate shown is 66.7.
C8_Witness ==
    /\ page.button
    /\ page.metrics.group_b = 3
    /\ page.metrics.missing = 1
    /\ page.match_rate.tenths = 667

\* The comparison of the worked example ran (the case C8 closes with).
C8_ExampleRan ==
    /\ page.button
    /\ files1 = <<ContactedFile>> /\ files2 = <<LeadsFile>>

\* C10: combine_dataframes gives None for an empty list whatever the filter;
\* while a group has no file the run builds no table, compares nothing, shows
\* no result, summary or download, only the upload message; a comparison is
\* on the page only when both groups have files and the button was pressed.
C10_NotReady ==
    /\ \A f \in Filters : combine_dataframes(<<>>, f) = None
    /\ (files1 = <<>> \/ files2 = <<>>) => page = [Blank EXCEPT !.info = TRUE]
    /\ page.info <=> (files1 = <<>> \/ files2 = <<>>)
    /\ page.result_df # None => (files1 # <<>> /\ files2 # <<>> /\ page.button)

\* Group A has a file, group B has none, and the page shows the upload message.
C10_Witness ==
    /\ files1 # <<>>
    /\ files2 = <<>>
    /\ page.info

===========================================================================
